---- MODULE Spec2Model ----
(***************************************************************************)
(* Model of src/src/api/githubDbClient.js: one entity collection stored as *)
(* one JSON blob in a remote repository (compare-and-swap on the blob's    *)
(* sha), a localStorage fallback per browser client, the module-level      *)
(* shaCache of each client, and the entity client's operations running as  *)
(* asynchronous tasks that suspend at every network call.                  *)
(*                                                                         *)
(* Atomicity: JavaScript runs a continuation to its next network await     *)
(* without interruption, so one step of a task is one network call         *)
(* together with the code that runs on its completion up to the next call  *)
(* being issued.  The sha of a write request is an argument of the call,   *)
(* so it is read from shaCache when the request is issued.                 *)
(*                                                                         *)
(* Ids and actor ids are strings in the program; they are modelled as      *)
(* small positive integers, 0 standing for null/undefined.  The blob sha   *)
(* is git's hash of the content, modelled as an injective function of it.  *)
(***************************************************************************)
EXTENDS Integers, Sequences, FiniteSets, TLC

\* Bounds of the model.
MaxOps == 3
MaxCreates == 2

Clients == {1, 2}
Tasks == {1, 2, 3}
\* Tasks 1 and 2 run in the same browser client (they share shaCache and
\* localStorage); task 3 runs in another client.
ClientOf(t) == IF t = 3 THEN 2 ELSE 1

Ids == 1 .. MaxCreates
Actors == {1, 2}
Null == 0

(***************************************************************************)
(* Arrays                                                                  *)
(***************************************************************************)
\* Array.prototype.indexOf: first position of x, 0 when absent.
IndexOf(arr, x) ==
  IF \E i \in 1..Len(arr) : arr[i] = x
  THEN CHOOSE i \in 1..Len(arr) : arr[i] = x /\ \A j \in 1..(i-1) : arr[j] # x
  ELSE 0

\* Array.prototype.splice(i, 1)
Splice(arr, i) == SubSeq(arr, 1, i-1) \o SubSeq(arr, i+1, Len(arr))

\* items.findIndex(item => String(item.id) === String(id)); 0 when absent.
FindIndex(items, id) ==
  IF \E i \in 1..Len(items) : items[i].id = id
  THEN CHOOSE i \in 1..Len(items) : items[i].id = id /\ \A j \in 1..(i-1) : items[j].id # id
  ELSE 0

\* Object spread { ...a, ...b }
Spread(a, b) ==
  [k \in (DOMAIN a) \cup (DOMAIN b) |-> IF k \in DOMAIN b THEN b[k] ELSE a[k]]

(***************************************************************************)
(* Results of operations                                                   *)
(***************************************************************************)
NoResult == [kind |-> "none", rec |-> <<>>, list |-> <<>>]
Absent == [kind |-> "absent", rec |-> <<>>, list |-> <<>>]
RecordResult(r) == [kind |-> "record", rec |-> r, list |-> <<>>]
ListResult(l) == [kind |-> "list", rec |-> <<>>, list |-> l]
TrueResult == [kind |-> "true", rec |-> <<>>, list |-> <<>>]

(***************************************************************************)
(* Entity client: the computation of each operation on the collection it   *)
(* read.  Each yields [write, items, result]: whether setStorage is called,*)
(* with which collection, and what the operation returns.                  *)
(***************************************************************************)
PRIVATE_ENTITIES == {"ShoppingList"}

\* getCurrentUser().id of a client: the session user of that browser.
getCurrentUser(c) == c

NoWrite(res) == [write |-> FALSE, items |-> <<>>, result |-> res]
Write(its, res) == [write |-> TRUE, items |-> its, result |-> res]

\* Comparator of list's sort: <0, 0, >0
SortCmp(x, y, field, isDesc) ==
  IF x[field] < y[field] THEN (IF isDesc THEN 1 ELSE -1)
  ELSE IF x[field] > y[field] THEN (IF isDesc THEN -1 ELSE 1)
  ELSE 0

\* Array.prototype.sort with that comparator (stable), as repeated insertion.
RECURSIVE SortItems(_, _, _)
SortItems(items, field, isDesc) ==
  IF Len(items) <= 1 THEN items
  ELSE LET n == Len(items)
           front == SortItems(SubSeq(items, 1, n-1), field, isDesc)
           x == items[n]
           k == Cardinality({i \in 1..(n-1) : SortCmp(front[i], x, field, isDesc) <= 0})
       IN  SubSeq(front, 1, k) \o <<x>> \o SubSeq(front, k+1, n-1)

\* list with the owner filter applied to every entity type.
listFiltersAll(entity, items, sort, limit, userId) ==
  LET owned == IF userId # Null
               THEN SelectSeq(items, LAMBDA it : it.user_id = userId)
               ELSE items
      sorted == IF sort = "" THEN owned
                ELSE IF sort = "-a" THEN SortItems(owned, "a", TRUE)
                ELSE SortItems(owned, "a", FALSE)
      cut == IF limit # 0 THEN SubSeq(sorted, 1, IF limit < Len(sorted) THEN limit ELSE Len(sorted))
             ELSE sorted
  IN  NoWrite(ListResult(cut))

\* sort is "" (null), "a" or "-a"; limit 0 is null.
list(entity, items, sort, limit, userId) ==
  LET owned == IF entity \in PRIVATE_ENTITIES /\ userId # Null
               THEN SelectSeq(items, LAMBDA it : it.user_id = userId)
               ELSE items
      sorted == IF sort = "" THEN owned
                ELSE IF sort = "-a" THEN SortItems(owned, "a", TRUE)
                ELSE SortItems(owned, "a", FALSE)
      cut == IF limit # 0 THEN SubSeq(sorted, 1, IF limit < Len(sorted) THEN limit ELSE Len(sorted))
             ELSE sorted
  IN  NoWrite(ListResult(cut))

\* filter that stores the selection as the collection.
filterSaves(items, filters) ==
  LET sel == SelectSeq(items, LAMBDA it : \A k \in DOMAIN filters : it[k] = filters[k])
  IN  Write(sel, ListResult(sel))

filter(items, filters) ==
  NoWrite(ListResult(SelectSeq(items,
     LAMBDA it : \A k \in DOMAIN filters : it[k] = filters[k])))

\* get that falls back to the first record when none has the id.
getOrFirst(items, id) ==
  LET i == FindIndex(items, id)
  IN  NoWrite(IF i # 0 THEN RecordResult(items[i])
              ELSE IF items # <<>> THEN RecordResult(items[1])
              ELSE Absent)

get(items, id) ==
  LET i == FindIndex(items, id)
  IN  NoWrite(IF i = 0 THEN Absent ELSE RecordResult(items[i]))

\* NewItem with the spread the other way round: the payload over the system
\* fields.
NewItemPayloadLast(data, newId, finalUserId) ==
  Spread([id |-> newId,
          created_by |-> finalUserId,
          updated_by |-> finalUserId,
          likes |-> <<>>,
          dislikes |-> <<>>,
          edit_history |-> <<>>], data)

\* The record create builds: the payload, then the system fields over it.
NewItem(data, newId, finalUserId) ==
  Spread(data, [id |-> newId,
                created_by |-> finalUserId,
                updated_by |-> finalUserId,
                likes |-> <<>>,
                dislikes |-> <<>>,
                edit_history |-> <<>>])

create(items, data, newId, c, userId) ==
  LET finalUserId == IF userId # Null THEN userId ELSE getCurrentUser(c)
      newItem == NewItem(data, newId, finalUserId)
  IN  Write(Append(items, newItem), RecordResult(newItem))

\* Object.keys(data) is walked in insertion order; the model walks the
\* payload's keys in this fixed order.
KeyOrder == <<"id", "a", "b", "user_id", "likes", "dislikes", "edit_history">>

\* Changes without the comparison: every key of the payload is recorded.
RECURSIVE ChangesAll(_, _, _)
ChangesAll(oldItem, data, n) ==
  IF n > Len(KeyOrder) THEN <<>>
  ELSE LET key == KeyOrder[n]
       IN  IF key \in DOMAIN data /\ key # "edit_history"
           THEN <<[field |-> key, old |-> oldItem[key], new |-> data[key]]>>
                  \o ChangesAll(oldItem, data, n+1)
           ELSE ChangesAll(oldItem, data, n+1)

\* The changes update records: one entry per key of the payload, other than
\* edit_history, whose value differs from the stored one.
RECURSIVE Changes(_, _, _)
Changes(oldItem, data, n) ==
  IF n > Len(KeyOrder) THEN <<>>
  ELSE LET key == KeyOrder[n]
       IN  IF key \in DOMAIN data /\ key # "edit_history" /\ oldItem[key] # data[key]
           THEN <<[field |-> key, old |-> oldItem[key], new |-> data[key]]>>
                  \o Changes(oldItem, data, n+1)
           ELSE Changes(oldItem, data, n+1)

\* UpdatedItem without the history entry.
UpdatedItemNoHistory(oldItem, data, currentUserId, changes) ==
  Spread(Spread(oldItem, data), [updated_by |-> currentUserId])

\* The record update stores when some field changed.
UpdatedItem(oldItem, data, currentUserId, changes) ==
  Spread(Spread(oldItem, data),
         [updated_by |-> currentUserId,
          edit_history |-> Append(oldItem.edit_history,
                                  [user_id |-> currentUserId, changes |-> changes])])

update(items, id, data, c, userId) ==
  LET index == FindIndex(items, id)
      oldItem == items[index]
      currentUserId == IF userId # Null THEN userId ELSE getCurrentUser(c)
      changes == Changes(oldItem, data, 1)
  IN  IF index = 0 THEN NoWrite(Absent)
      ELSE IF changes = <<>> THEN NoWrite(RecordResult(oldItem))
      ELSE LET newItem == UpdatedItem(oldItem, data, currentUserId, changes)
           IN  Write([items EXCEPT ![index] = newItem], RecordResult(newItem))

delete(items, id) ==
  Write(SelectSeq(items, LAMBDA it : it.id # id), TrueResult)

\* Toggle that leaves the opposite array alone.
ToggleKeepsOpposite(on, off, userId) ==
  LET i == IndexOf(on, userId)
  IN  IF i # 0 THEN [on |-> Splice(on, i), off |-> off]
      ELSE [on |-> Append(on, userId), off |-> off]

\* The like/dislike arrays after a toggle: [on, off] where "on" is the array
\* the toggle is about and "off" the opposite one.
Toggle(on, off, userId) ==
  LET i == IndexOf(on, userId)
      j == IndexOf(off, userId)
  IN  IF i # 0 THEN [on |-> Splice(on, i), off |-> off]
      ELSE [on |-> Append(on, userId), off |-> IF j # 0 THEN Splice(off, j) ELSE off]

toggleLike(items, id, userId) ==
  LET index == FindIndex(items, id)
      item == items[index]
      t == Toggle(item.likes, item.dislikes, userId)
      newItem == [item EXCEPT !.likes = t.on, !.dislikes = t.off]
  IN  IF index = 0 THEN NoWrite(Absent)
      ELSE Write([items EXCEPT ![index] = newItem], RecordResult(newItem))

toggleDislike(items, id, userId) ==
  LET index == FindIndex(items, id)
      item == items[index]
      t == Toggle(item.dislikes, item.likes, userId)
      newItem == [item EXCEPT !.dislikes = t.on, !.likes = t.off]
  IN  IF index = 0 THEN NoWrite(Absent)
      ELSE Write([items EXCEPT ![index] = newItem], RecordResult(newItem))

(***************************************************************************)
(* State                                                                   *)
(***************************************************************************)
VARIABLES
  entityName,   \* the entity type whose collection is modelled
  configured,   \* per client: octokit && GITHUB_OWNER && GITHUB_REPO
  remote,       \* the blob data/<entityName>.json: [exists, content]
  localStorage, \* per client: pricepilot_db_data/<entityName>.json
  shaCache,     \* per client: shaCache[entityName], [known, sha]
  pc,           \* per task: "idle", "write", "refresh", "retry"
  op,           \* per task: the operation in flight and its arguments
  items,        \* per task: the collection handed to setStorage
  reqSha,       \* per task: the sha argument of the write request in flight
  result,       \* per task: what the operation will return
  opsStarted,   \* operations called so far
  nextId,       \* ids generated so far, plus one
  menu,         \* the operations callers use in this run
  budget,       \* how many operations are called in this run
  base,         \* history: the collection the task's getStorage returned
  io,           \* history: outcomes of the task's network/storage calls
  sawWrite,     \* history: tasks whose remote write was accepted since the task's read
  writerOf,     \* history: the task that wrote the remote blob's current content
  created,      \* history: per client, the last completed create
  last          \* history: the operation that returned last

vars == <<entityName, configured, remote, localStorage, shaCache, pc, op, items,
          reqSha, result, opsStarted, nextId, menu, budget, base, io, sawWrite,
          writerOf, created, last>>

EntityNames == {"Product", "ShoppingList"}

NoBlob == [exists |-> FALSE, content |-> <<>>]
Blob(content) == [exists |-> TRUE, content |-> content]
NoSha == [known |-> FALSE, sha |-> <<>>]
\* The blob sha GitHub reports: git's hash of the content.
BlobSha(content) == [known |-> TRUE, sha |-> content]

(***************************************************************************)
(* Inputs the operations are called with                                   *)
(***************************************************************************)
Payload1 == [a |-> 0, b |-> 0, user_id |-> 1]
\* A payload that carries system keys as well.
Payload2 == [a |-> 1, b |-> 0, user_id |-> 2, id |-> 1, likes |-> <<1>>]
CreatePayloads == {Payload1, Payload2}
UpdatePayloads == {[a |-> 1], [a |-> 1, b |-> 1], [id |-> 1],
                   [likes |-> <<1>>, dislikes |-> <<1>>], [edit_history |-> <<>>]}
FilterMaps == {[a |-> 1]}

Op(name, id, data, userId, sort, limit) ==
  [name |-> name, id |-> id, data |-> data, userId |-> userId, sort |-> sort, limit |-> limit]
NoOp == Op("none", Null, Payload1, Null, "", 0)

\* The id of a create is generated inside the operation (see Call).
Ops ==
       {Op("list", Null, Payload1, Null, "", 0), Op("list", Null, Payload1, 1, "-a", 1),
        Op("list", Null, Payload1, 1, "", 0)}
  \cup {Op("filter", Null, f, Null, "", 0) : f \in FilterMaps}
  \cup {Op("get", i, Payload1, Null, "", 0) : i \in Ids}
  \cup {Op("create", Null, d, Null, "", 0) : d \in CreatePayloads}
  \cup {Op("update", i, d, Null, "", 0) : i \in Ids, d \in UpdatePayloads}
  \cup {Op("delete", i, Payload1, Null, "", 0) : i \in Ids}
  \cup {Op("toggleLike", i, Payload1, u, "", 0) : i \in Ids, u \in Actors}
  \cup {Op("toggleDislike", i, Payload1, u, "", 0) : i \in Ids, u \in Actors}

Reading == {"list", "filter", "get"}
Mutating == {"create", "update", "delete", "toggleLike", "toggleDislike"}

\* What an operation computes from the collection its getStorage returned.
Apply(o, its, c) ==
  CASE o.name = "list" -> list(entityName, its, o.sort, o.limit, o.userId)
    [] o.name = "filter" -> filter(its, o.data)
    [] o.name = "get" -> get(its, o.id)
    [] o.name = "create" -> create(its, o.data, o.id, c, o.userId)
    [] o.name = "update" -> update(its, o.id, o.data, c, o.userId)
    [] o.name = "delete" -> delete(its, o.id)
    [] o.name = "toggleLike" -> toggleLike(its, o.id, o.userId)
    [] OTHER -> toggleDislike(its, o.id, o.userId)

(***************************************************************************)
(* The remote repository, as the program sees it                           *)
(***************************************************************************)
\* Outcomes of octokit getContent: the content with its sha, 404, or any
\* other failure.
GetOutcomes == (IF remote.exists THEN {"ok"} ELSE {"404"}) \cup {"error"}

\* Outcomes of octokit createOrUpdateFileContents with sha argument `sha`:
\* accepted when the sha names the current content (or none is given for a
\* new file), 409 when it names other content, or any other failure.  A
\* missing sha for an existing file is refused, with 409 or another status.
PutOutcomes(sha) ==
  {"error"} \cup
  (IF remote.exists
   THEN (IF ~sha.known THEN {"conflict"}
         ELSE IF sha = BlobSha(remote.content) THEN {"ok"} ELSE {"conflict"})
   ELSE (IF ~sha.known THEN {"ok"} ELSE {}))

(***************************************************************************)
(* getStorage and setStorage                                               *)
(***************************************************************************)
Stored(blob) == IF blob.exists THEN blob.content ELSE <<>>

\* Stored text that is not a JSON array: not JSON at all, or a JSON object,
\* number, string or null.  It is kept as a one-element content that says
\* which.
MalformedKinds == {"notjson", "object", "number", "string", "null"}
Malformed(kind) == <<[malformed |-> kind]>>
IsMalformed(content) == Len(content) = 1 /\ "malformed" \in DOMAIN content[1]

\* JSON.parse (its exception caught) followed by validateData: [] for
\* anything that is not an array.
validateData(content) == IF IsMalformed(content) THEN <<>> ELSE content

\* The debug log between them evaluates data.length: a TypeError when
\* JSON.parse returned null, outside every try block.
LengthThrows(content) == IsMalformed(content) /\ content[1].malformed = "null"

\* getStorage without the localStorage fallback: [] whenever the remote
\* gives no content.
GetStorageDataNoFallback(c, out) ==
  IF out = "ok" THEN validateData(remote.content) ELSE <<>>

\* What getStorage returns, by the outcome of its read: the remote content,
\* [] for 404, and localStorage's content when the remote read failed or no
\* remote is configured.
GetStorageData(c, out) ==
  IF out = "ok" THEN validateData(remote.content)
  ELSE IF out = "404" THEN <<>>
  ELSE validateData(Stored(localStorage[c]))

\* Whether getStorage throws instead, by the outcome of its read.
GetStorageThrows(c, out) ==
  IF out = "ok" THEN LengthThrows(remote.content)
  ELSE IF out = "404" THEN FALSE
  ELSE LengthThrows(Stored(localStorage[c]))

\* shaCache[entityName] after getStorage: set only by a successful read.
CacheAfterRead(c, out) ==
  IF out = "ok" THEN BlobSha(remote.content) ELSE shaCache[c]

\* History bookkeeping of the last completed create of each client: any later
\* write to the store holding it ends "no other writer in between".
NoCreated == [valid |-> FALSE, store |-> "none", rec |-> Payload1, data |-> Payload1]
CreatedAfter(t, store) ==
  [k \in Clients |->
     IF k = ClientOf(t) /\ op[t].name = "create"
     THEN [valid |-> TRUE, store |-> store, rec |-> result[t].rec, data |-> op[t].data]
     ELSE IF created[k].store = store /\ (store = "remote" \/ k = ClientOf(t))
     THEN NoCreated
     ELSE created[k]]

\* History bookkeeping of a toggle: the likes and dislikes of the record it
\* read.
NoReactions == [valid |-> FALSE, likes |-> <<>>, dislikes |-> <<>>]
ReactionsBefore(o, read) ==
  LET i == FindIndex(read, o.id)
  IN  IF o.name \in {"toggleLike", "toggleDislike"} /\ i # 0
      THEN [valid |-> TRUE, likes |-> read[i].likes, dislikes |-> read[i].dislikes]
      ELSE NoReactions
\* When a toggle returns right after a toggleLike of the same id and actor
\* and it read the record as that toggleLike returned it (no other writer in
\* between): the likes and dislikes before that toggleLike.
PairBefore(o, read) ==
  LET i == FindIndex(read, o.id)
  IN  IF /\ o.name \in {"toggleLike", "toggleDislike"} /\ i # 0
         /\ last.name = "toggleLike" /\ last.before.valid
         /\ last.id = o.id /\ last.op.userId = o.userId
         /\ last.res.rec = read[i]
      THEN last.before
      ELSE NoReactions

\* History bookkeeping of the operation that returned last: the task, the
\* operation and its id argument, the outcomes of its calls, where its
\* collection was stored, what it returned, the task whose content its
\* first write replaced without having read it (0: none), the operation with
\* all its arguments, and the toggle bookkeeping above.
NoLast == [task |-> 0, name |-> "none", id |-> Null, io |-> <<>>, store |-> "none",
           res |-> NoResult, clobbered |-> 0, op |-> NoOp, before |-> NoReactions,
           pair |-> NoReactions]
Last(t, o, ios, store, res, clob, read) ==
  [task |-> t, name |-> o.name, id |-> o.id, io |-> ios, store |-> store,
   res |-> res, clobbered |-> clob, op |-> o, before |-> ReactionsBefore(o, read),
   pair |-> PairBefore(o, read)]

\* The task's operation returns: its slot is free again.
Return(t) ==
  /\ pc' = [pc EXCEPT ![t] = "idle"]
  /\ op' = [op EXCEPT ![t] = NoOp]
  /\ items' = [items EXCEPT ![t] = <<>>]
  /\ reqSha' = [reqSha EXCEPT ![t] = NoSha]
  /\ result' = [result EXCEPT ![t] = NoResult]
  /\ base' = [base EXCEPT ![t] = <<>>]
  /\ io' = [io EXCEPT ![t] = <<>>]

\* SetItem with the write left out.
SetItemLost(c, its) == localStorage

\* localStorage after localStorage.setItem(key, jsonString).
SetItem(c, its) == [localStorage EXCEPT ![c] = Blob(its)]

\* The write was accepted: the blob is replaced, the response's sha cached,
\* and setStorage and the operation return.
Accepted(t, call, first) ==
  LET c == ClientOf(t)
      changed == Blob(items[t]) # remote
  IN  /\ remote' = Blob(items[t])
      /\ shaCache' = [shaCache EXCEPT ![c] = BlobSha(items[t])]
      /\ Return(t)
      /\ writerOf' = IF changed THEN t ELSE writerOf
      /\ sawWrite' = [u \in Tasks |->
                        IF u = t THEN {}
                        ELSE IF changed /\ pc[u] = "write" THEN sawWrite[u] \cup {t}
                        ELSE sawWrite[u]]
      /\ last' = Last(t, op[t], Append(io[t], <<call, "ok">>), "remote", result[t],
                      IF first /\ writerOf \in sawWrite[t] /\ Stored(remote) # base[t]
                      THEN writerOf ELSE 0, base[t])
      /\ created' = CreatedAfter(t, "remote")
      /\ UNCHANGED <<entityName, configured, menu, budget, localStorage, opsStarted, nextId>>

\* localStorage.setItem of the fallback branches; setStorage and the
\* operation return.
SavedLocally(t, call, out) ==
  LET c == ClientOf(t)
  IN  /\ localStorage' = SetItem(c, items[t])
      /\ Return(t)
      /\ sawWrite' = [sawWrite EXCEPT ![t] = {}]
      /\ last' = Last(t, op[t], Append(io[t], <<call, out>>), "local", result[t], 0, base[t])
      /\ created' = CreatedAfter(t, "local")
      /\ UNCHANGED <<entityName, configured, menu, budget, remote, shaCache, opsStarted,
                     nextId, writerOf>>

\* An exception leaves setStorage and the operation: the task ends raised.
Raised(t, call, out) ==
  /\ pc' = [pc EXCEPT ![t] = "raised"]
  /\ io' = [io EXCEPT ![t] = Append(@, <<call, out>>)]
  /\ UNCHANGED <<entityName, configured, menu, budget, remote, localStorage, shaCache,
                 op, items, reqSha, result, opsStarted, nextId, base, sawWrite,
                 writerOf, created, last>>

\* AfterWrite without the 409 branch: every failure falls back at once.
AfterWriteNoRetry(out) == IF out = "ok" THEN "accepted" ELSE "local"

\* Where the first write's outcome leads: the return, the catch's 409 branch
\* (the refresh read), or the catch's localStorage fallback.
AfterWrite(out) ==
  IF out = "ok" THEN "accepted"
  ELSE IF out = "conflict" THEN "refresh"
  ELSE "local"

\* AfterRefresh with the refresh read outside the inner try: its failure
\* leaves setStorage as an exception.
AfterRefreshUncaught(out) == IF out = "ok" THEN "retry" ELSE "raise"

\* Where the refresh read's outcome leads: the retry write, or (any failure,
\* a 404 included, is caught) the localStorage fallback.
AfterRefresh(out) == IF out = "ok" THEN "retry" ELSE "local"

\* Where the retry write's outcome leads: the return, or (any failure is
\* caught) the localStorage fallback.
AfterRetry(out) == IF out = "ok" THEN "accepted" ELSE "local"

(***************************************************************************)
(* Actions                                                                 *)
(***************************************************************************)
Start(names, n, remotes, locals) ==
  /\ entityName \in EntityNames
  /\ configured \in {[c \in Clients |-> TRUE], [c \in Clients |-> c # 1]}
  /\ menu = names
  /\ budget = n
  /\ remote \in remotes
  /\ localStorage \in [Clients -> locals]
  /\ shaCache = [c \in Clients |-> NoSha]
  /\ pc = [t \in Tasks |-> "idle"]
  /\ op = [t \in Tasks |-> NoOp]
  /\ items = [t \in Tasks |-> <<>>]
  /\ reqSha = [t \in Tasks |-> NoSha]
  /\ result = [t \in Tasks |-> NoResult]
  /\ opsStarted = 0
  /\ nextId = 1
  /\ base = [t \in Tasks |-> <<>>]
  /\ io = [t \in Tasks |-> <<>>]
  /\ sawWrite = [t \in Tasks |-> {}]
  /\ writerOf = 0
  /\ created = [c \in Clients |-> NoCreated]
  /\ last = NoLast

\* Every operation of the entity client, MaxOps calls.
Init == Start(Reading \cup Mutating, MaxOps, {NoBlob, Blob(<<>>)}, {NoBlob})

\* Creates, reactions and gets only, one call more.
InitReactions ==
  Start({"create", "toggleLike", "get"}, MaxOps + 1, {NoBlob, Blob(<<>>)}, {NoBlob})

\* The remote blob and every localStorage item hold malformed content.
InitMalformed ==
  \E k \in MalformedKinds :
    Start(Reading \cup Mutating, MaxOps - 1, {Blob(Malformed(k))}, {Blob(Malformed(k))})

\* An operation is called: getStorage, then the operation's computation on
\* what it returned, up to the write request being issued (or to the return,
\* for an operation that does not write).  When getStorage throws, the
\* operation raises to its caller.  Task 2 is used only while task 1 of the
\* same client is in flight.
Call(t) ==
  LET c == ClientOf(t) IN
  /\ pc[t] = "idle"
  /\ opsStarted < budget
  /\ t = 2 => pc[1] # "idle"
  /\ \E o0 \in Ops, out \in (IF configured[c] THEN GetOutcomes ELSE {"local"}) :
       /\ o0.name \in menu
       /\ o0.name = "create" => nextId <= MaxCreates
       /\ LET o == IF o0.name = "create" THEN [o0 EXCEPT !.id = nextId] ELSE o0
              data == GetStorageData(c, out)
              m == Apply(o, data, c)
          IN  /\ shaCache' = [shaCache EXCEPT ![c] = CacheAfterRead(c, out)]
              /\ nextId' = IF o0.name = "create" /\ ~GetStorageThrows(c, out)
                           THEN nextId + 1 ELSE nextId
              /\ IF GetStorageThrows(c, out)
                 THEN /\ op' = [op EXCEPT ![t] = o0]
                      /\ io' = [io EXCEPT ![t] = << <<"get", out>> >>]
                      /\ pc' = [pc EXCEPT ![t] = "raised"]
                      /\ last' = last
                      /\ UNCHANGED <<base, items, reqSha, result>>
                 ELSE IF m.write
                 THEN /\ op' = [op EXCEPT ![t] = o]
                      /\ base' = [base EXCEPT ![t] = data]
                      /\ io' = [io EXCEPT ![t] = << <<"get", out>> >>]
                      /\ pc' = [pc EXCEPT ![t] = "write"]
                      /\ items' = [items EXCEPT ![t] = m.items]
                      /\ reqSha' = [reqSha EXCEPT ![t] =
                                      IF configured[c] THEN shaCache'[c] ELSE NoSha]
                      /\ result' = [result EXCEPT ![t] = m.result]
                      /\ last' = last
                 ELSE /\ last' = Last(t, o, << <<"get", out>> >>, "none", m.result, 0, data)
                      /\ UNCHANGED <<op, base, io, pc, items, reqSha, result>>
       /\ opsStarted' = opsStarted + 1
       /\ UNCHANGED <<entityName, configured, menu, budget, remote, localStorage,
                      sawWrite, writerOf, created>>

\* setStorage's first write completes (for a client with no remote
\* configured, the localStorage write).
SetStorage(t) ==
  /\ pc[t] = "write"
  /\ \E out \in (IF configured[ClientOf(t)] THEN PutOutcomes(reqSha[t]) ELSE {"local"}) :
       CASE AfterWrite(out) = "accepted" -> Accepted(t, "put", TRUE)
         [] AfterWrite(out) = "refresh" ->
              /\ pc' = [pc EXCEPT ![t] = "refresh"]
              /\ io' = [io EXCEPT ![t] = Append(@, <<"put", out>>)]
              /\ UNCHANGED <<entityName, configured, menu, budget, remote, localStorage,
                             shaCache, op, items, reqSha, result, opsStarted, nextId,
                             base, sawWrite, writerOf, created, last>>
         [] AfterWrite(out) = "local" -> SavedLocally(t, "put", out)
         [] OTHER -> Raised(t, "put", out)

\* The read that refreshes the sha after a 409 completes; on success the
\* retry write is issued with the refreshed sha.
SetStorageRefresh(t) ==
  /\ pc[t] = "refresh"
  /\ \E out \in GetOutcomes :
       CASE AfterRefresh(out) = "retry" ->
              /\ shaCache' = [shaCache EXCEPT ![ClientOf(t)] = BlobSha(remote.content)]
              /\ reqSha' = [reqSha EXCEPT ![t] = BlobSha(remote.content)]
              /\ pc' = [pc EXCEPT ![t] = "retry"]
              /\ io' = [io EXCEPT ![t] = Append(@, <<"refresh", out>>)]
              /\ UNCHANGED <<entityName, configured, menu, budget, remote, localStorage,
                             op, items, result, opsStarted, nextId, base, sawWrite,
                             writerOf, created, last>>
         [] AfterRefresh(out) = "local" -> SavedLocally(t, "refresh", out)
         [] OTHER -> Raised(t, "refresh", out)

\* The retry write completes.
SetStorageRetry(t) ==
  /\ pc[t] = "retry"
  /\ \E out \in PutOutcomes(reqSha[t]) :
       CASE AfterRetry(out) = "accepted" -> Accepted(t, "retry", FALSE)
         [] AfterRetry(out) = "local" -> SavedLocally(t, "retry", out)
         [] AfterRetry(out) = "refresh" ->
              /\ pc' = [pc EXCEPT ![t] = "refresh"]
              /\ io' = [io EXCEPT ![t] = Append(@, <<"retry", out>>)]
              /\ UNCHANGED <<entityName, configured, menu, budget, remote, localStorage,
                             shaCache, op, items, reqSha, result, opsStarted, nextId,
                             base, sawWrite, writerOf, created, last>>
         [] OTHER -> Raised(t, "retry", out)

Next ==
  \E t \in Tasks :
    \/ Call(t)
    \/ SetStorage(t)
    \/ SetStorageRefresh(t)
    \/ SetStorageRetry(t)

Spec == Init /\ [][Next]_vars

SpecReactions == InitReactions /\ [][Next]_vars

SpecMalformed == InitMalformed /\ [][Next]_vars

\* Every network call that was issued completes, with some outcome.
Completes(t) == SetStorage(t) \/ SetStorageRefresh(t) \/ SetStorageRetry(t)
FairSpec == Spec /\ \A t \in Tasks : WF_vars(Completes(t))

(***************************************************************************)
(* Properties                                                              *)
(***************************************************************************)
IsPrefix(p, q) == Len(p) <= Len(q) /\ SubSeq(q, 1, Len(p)) = p
InArray(x, arr) == \E i \in 1..Len(arr) : arr[i] = x
Stores == {remote} \cup {localStorage[c] : c \in Clients}
\* The task's getStorage read the blob and its sha.
TokenRead(t) == io[t][1] = <<"get", "ok">>
\* The collection the task's operation yields when applied to the remote's
\* current content.
Reapplied(t) ==
  LET m == Apply(op[t], Stored(remote), ClientOf(t))
  IN  IF m.write THEN m.items ELSE Stored(remote)

\* C1: when a write is rejected as a conflict and its single retry is
\* accepted, the remote collection is the writer's mutation applied to the
\* collection the other writer left (both changes, or the retrier's values on
\* top of the other's state).
C1_RetryReappliesMutation ==
  [][\A t \in Tasks :
       (pc[t] = "retry" /\ pc'[t] = "idle" /\ last'.store = "remote" /\ TokenRead(t))
         => remote'.content = Reapplied(t)]_vars

\* C2: the first write attempt of an operation never replaces content that a
\* concurrent operation of the same client wrote after this operation's read
\* and that this operation did not read (the compare-and-swap rejects it).
C2_FirstWriteNeverReplacesUnseenChange ==
  last.clobbered # 0 => ClientOf(last.clobbered) # ClientOf(last.task)


\* Remote write attempts and refresh reads among the calls of an operation.
Puts(ios) == Cardinality({i \in 1..Len(ios) : ios[i][1] \in {"put", "retry"} /\ ios[i][2] # "local"})
Refreshes(ios) == Cardinality({i \in 1..Len(ios) : ios[i][1] = "refresh"})
\* The shape of an operation's calls: a conflict only on the first write,
\* followed by one refresh read, followed (if that read succeeded) by one
\* retry write and nothing more.
RetryOnce(ios, returned) ==
  /\ Puts(ios) <= 2
  /\ Refreshes(ios) <= 1
  /\ \A i \in 1..Len(ios) :
       /\ ios[i] = <<"put", "conflict">> =>
            /\ i = 2
            /\ Len(ios) > 2 => ios[3][1] = "refresh"
            /\ returned => Len(ios) > 2
       /\ ios[i][1] = "refresh" =>
            /\ i = 3 /\ ios[2] = <<"put", "conflict">>
            /\ ios[i][2] = "ok" => /\ Len(ios) > 3 => (Len(ios) = 4 /\ ios[4][1] = "retry")
                                   /\ returned => Len(ios) = 4
            /\ ios[i][2] # "ok" => Len(ios) = 3
       /\ ios[i][1] = "retry" => i = 4 /\ ios[3] = <<"refresh", "ok">>

\* C3: a conflict on the first remote write triggers exactly one refresh read
\* and then exactly one further write attempt; a second conflict, or a failure
\* of the refresh read or of the retry write, ends in the localStorage
\* fallback and a normal return; no operation makes more than two remote
\* write attempts.
C3_OneRefreshOneRetry ==
  /\ \A t \in Tasks :
       /\ pc[t] # "raised"
       /\ RetryOnce(io[t], FALSE)
       /\ pc[t] = "refresh" <=> (io[t] # <<>> /\ io[t][Len(io[t])] = <<"put", "conflict">>)
       /\ pc[t] = "retry" <=> (io[t] # <<>> /\ io[t][Len(io[t])] = <<"refresh", "ok">>)
  /\ RetryOnce(last.io, TRUE)
  /\ Len(last.io) > 2 =>
       LET end == last.io[Len(last.io)]
       IN  IF end = <<"retry", "ok">> THEN last.store = "remote" ELSE last.store = "local"

C3_Witness ==
  /\ Len(last.io) = 4
  /\ last.io[1] = <<"get", "ok">>
  /\ last.io[2] = <<"put", "conflict">>
  /\ last.io[3] = <<"refresh", "ok">>
  /\ last.io[4] = <<"retry", "conflict">>
  /\ last.store = "local"

\* C4: when a mutating operation that computed a collection returns, that
\* collection is the content of the remote blob or of the caller's
\* localStorage, whatever the outcomes of its calls were.
C4_MutationStored ==
  [][\A t \in Tasks :
       (pc[t] \in {"write", "refresh", "retry"} /\ pc'[t] # pc[t])
         => /\ pc'[t] \in {"idle", "refresh", "retry"}
            /\ pc'[t] = "idle" =>
                 \/ remote' = Blob(items[t])
                 \/ localStorage'[ClientOf(t)] = Blob(items[t])]_vars

C4_Witness ==
  /\ last.name \in Mutating
  /\ Len(last.io) = 4 /\ last.io[1] = <<"get", "ok">>
  /\ last.io[4] = <<"retry", "conflict">>
  /\ last.store = "local"
  /\ localStorage[ClientOf(last.task)].exists

\* C5: no operation raises, and every operation that was called returns
\* (its task is idle again, always eventually), whatever the outcome of each
\* of its calls.
C5_OperationsComplete ==
  /\ [](\A t \in Tasks : pc[t] # "raised")
  /\ \A t \in Tasks : []<>(pc[t] = "idle")

C5_Witness ==
  /\ last.name \in Mutating
  /\ last.io = << <<"get", "error">>, <<"put", "conflict">>, <<"refresh", "error">> >>

\* C6: no stored record has the same actor id in its likes and its dislikes.
C6_LikesDislikesDisjoint ==
  \A s \in Stores : \A i \in 1..Len(s.content) : \A u \in Actors :
    ~(InArray(u, s.content[i].likes) /\ InArray(u, s.content[i].dislikes))

\* C7: while a record stays in the remote collection, its edit_history
\* after a step has its edit_history before the step as a prefix.
C7_EditHistoryOnlyGrows ==
  [][\A id \in Ids :
       LET i == FindIndex(Stored(remote), id)
           j == FindIndex(Stored(remote'), id)
       IN  (i # 0 /\ j # 0)
             => IsPrefix(remote.content[i].edit_history,
                         remote'.content[j].edit_history)]_vars

\* C8: every stored collection holds at most one record per id.
C8_IdsUnique ==
  \A s \in Stores : \A i, j \in 1..Len(s.content) :
    i # j => s.content[i].id # s.content[j].id

\* C9: the record an update or a toggle stores and returns has the id the
\* operation was called with, whatever the payload.
C9_IdImmutable ==
  \A t \in Tasks :
    (pc[t] = "write" /\ op[t].name \in {"update", "toggleLike", "toggleDislike"})
      => /\ result[t].rec.id = op[t].id
         /\ items[t][FindIndex(base[t], op[t].id)].id = op[t].id

\* The store a read with this outcome was served from.
StoreOf(out) ==
  IF out = "ok" THEN "remote" ELSE IF out \in {"error", "local"} THEN "local" ELSE "none"
\* The keys create sets itself.
SystemKeys == {"id", "created_by", "updated_by", "likes", "dislikes", "edit_history"}
\* The last operation was a get of the id the client's last create returned,
\* served from the store that create was persisted to, with no write to that
\* store in between.
GetAfterCreate(c) ==
  /\ last.name = "get" /\ last.task # 0 /\ ClientOf(last.task) = c
  /\ created[c].valid
  /\ last.id = created[c].rec.id
  /\ StoreOf(last.io[1][2]) = created[c].store

\* C10: create(payload) followed by get of the returned id, with no other
\* writer in between, returns a record with that id, the payload's fields,
\* and empty likes, dislikes and edit_history.
C10_CreateThenGet ==
  \A c \in Clients :
    GetAfterCreate(c) =>
      /\ last.res.kind = "record"
      /\ last.res.rec = created[c].rec
      /\ last.res.rec.id = last.id
      /\ last.res.rec.likes = <<>>
      /\ last.res.rec.dislikes = <<>>
      /\ last.res.rec.edit_history = <<>>
      /\ \A k \in (DOMAIN created[c].data) \ SystemKeys :
           last.res.rec[k] = created[c].data[k]

\* The client's last create found the remote unreachable at its write, so
\* that its collection went to localStorage; the last operation is a get of
\* the created id that found the remote unreachable at its read.
UnreachableCreateThenGet(c) ==
  /\ GetAfterCreate(c)
  /\ configured[c]
  /\ created[c].store = "local"
  /\ last.io[1] = <<"get", "error">>

\* C11: a create whose read and write both fail with a transport error writes
\* the collection with the new record to the caller's localStorage and
\* returns the record; a get of its id that is then served from that
\* localStorage (the remote read fails again) returns the record.
C11_FallbackCreateThenGet ==
  [][/\ \A t \in Tasks :
          (/\ pc[t] = "write" /\ op[t].name = "create" /\ pc'[t] = "idle"
           /\ last'.io = << <<"get", "error">>, <<"put", "error">> >>)
            => /\ localStorage'[ClientOf(t)].exists
               /\ InArray(result[t].rec, localStorage'[ClientOf(t)].content)
               /\ last'.res = RecordResult(result[t].rec)
               /\ remote' = remote
     /\ \A c \in Clients :
          UnreachableCreateThenGet(c)' => (last.res = RecordResult(created[c].rec))']_vars

C11_Witness ==
  \E c \in Clients : UnreachableCreateThenGet(c) /\ last.res.kind = "record"

\* The content a read with this outcome takes its data from.
ContentRead(c, out) ==
  IF out = "ok" THEN remote.content
  ELSE IF out = "404" THEN <<>>
  ELSE Stored(localStorage[c])

\* C19: when an operation is called and the content its read is served
\* malformed (not JSON, or a JSON object, number, string or null), the
\* operation does not raise and computes from the empty collection; list and
\* filter then return no record, get returns absent, and these three leave
\* the remote blob and every localStorage item as they were.
C19_MalformedReadsAsEmpty ==
  [][opsStarted' # opsStarted =>
       /\ \A t \in Tasks : pc'[t] = "raised" => pc[t] = "raised"
       /\ \A t \in Tasks :
            (/\ pc[t] = "idle" /\ pc'[t] = "write"
             /\ IsMalformed(ContentRead(ClientOf(t), io'[t][1][2])))
              => base'[t] = <<>>
       /\ (/\ pc' = pc /\ last'.name \in Reading
           /\ IsMalformed(ContentRead(ClientOf(last'.task), last'.io[1][2])))
            => /\ last'.res \in {ListResult(<<>>), Absent}
               /\ remote' = remote
               /\ localStorage' = localStorage]_vars

\* C20: a mutating operation whose read failed with a transport error and was
\* served from localStorage never replaces the remote blob: when it returns,
\* the blob is as it was and the operation's collection is in localStorage.
C20_LocalReadNeverReplacesRemote ==
  [][\A t \in Tasks :
       (/\ pc[t] \in {"write", "refresh", "retry"} /\ pc'[t] = "idle"
        /\ io[t][1] = <<"get", "error">> /\ remote.exists)
         => (remote' = remote /\ last'.store = "local")]_vars

C10_Witness ==
  \E c \in Clients :
    /\ GetAfterCreate(c)
    /\ created[c].data = Payload2
    /\ last.res.kind = "record"

\* The payload has the record's value on every field it supplies.
SameOnEveryField(rec, data) == \A k \in DOMAIN data : rec[k] = data[k]
\* The collection the getStorage of the operation that just returned without
\* writing gave it (read in the state before the step).
ReadByLast == GetStorageData(ClientOf(last'.task), last'.io[1][2])

\* C12: an update whose payload equals the stored record on every field it
\* supplies issues no write, returns the record exactly as it was read (no
\* history entry appended, updated_by unchanged) and leaves the remote blob
\* and every localStorage item as they were.
C12_NoOpUpdateWritesNothing ==
  [][/\ \A t \in Tasks :
          (pc[t] = "idle" /\ pc'[t] = "write" /\ op'[t].name = "update")
            => ~SameOnEveryField(base'[t][FindIndex(base'[t], op'[t].id)], op'[t].data)
     /\ (/\ opsStarted' # opsStarted /\ pc' = pc /\ last'.name = "update"
         /\ FindIndex(ReadByLast, last'.id) # 0
         /\ SameOnEveryField(ReadByLast[FindIndex(ReadByLast, last'.id)], last'.op.data))
          => LET rec == ReadByLast[FindIndex(ReadByLast, last'.id)]
             IN  /\ last'.res = RecordResult(rec)
                 /\ last'.store = "none"
                 /\ remote' = remote
                 /\ localStorage' = localStorage]_vars

C12_Witness ==
  /\ last.name = "update" /\ last.store = "none" /\ last.res.kind = "record"
  /\ "a" \in DOMAIN last.op.data
  /\ SameOnEveryField(last.res.rec, last.op.data)
  /\ last.res.rec.edit_history = <<>>

\* The fields an update changes: the keys of the payload, edit_history
\* apart, whose value differs from the stored record's.
ChangedFields(rec, data) ==
  {k \in (DOMAIN data) \ {"edit_history"} : rec[k] # data[k]}
\* The record the update in flight in task t read, and the one it stores.
UpdateOld(t) == base[t][FindIndex(base[t], op[t].id)]
UpdateNew(t) == items[t][FindIndex(base[t], op[t].id)]

\* C13: an update that changes the set F of fields stores and returns the
\* record with exactly one entry appended to its edit_history, and that
\* entry has exactly one triple per field of F, with the value read as old
\* and the payload's value as new.
C13_UpdateAppendsOneEntry ==
  \A t \in Tasks :
    (pc[t] = "write" /\ op[t].name = "update") =>
      LET old == UpdateOld(t)
          new == UpdateNew(t)
          F == ChangedFields(old, op[t].data)
          entry == new.edit_history[Len(new.edit_history)]
      IN  /\ F # {}
          /\ result[t].rec = new
          /\ Len(new.edit_history) = Len(old.edit_history) + 1
          /\ IsPrefix(old.edit_history, new.edit_history)
          /\ Len(entry.changes) = Cardinality(F)
          /\ \A j \in 1..Len(entry.changes) : entry.changes[j].field \in F
          /\ \A k \in F : \E j \in 1..Len(entry.changes) :
                entry.changes[j] = [field |-> k, old |-> old[k], new |-> op[t].data[k]]
          /\ \A k \in DOMAIN op[t].data : k # "edit_history" => new[k] = op[t].data[k]

C13_Witness ==
  \E t \in Tasks :
    /\ pc[t] = "write" /\ op[t].name = "update"
    /\ UpdateOld(t).edit_history # <<>>
    /\ ChangedFields(UpdateOld(t), op[t].data) = {"a", "b"}

\* The actors in a likes or dislikes array.
SetOf(arr) == {arr[i] : i \in 1..Len(arr)}
\* The record with this id after toggleLike, and after toggleLike followed
\* by a second toggle, each applied to the collection the one before left.
LikedTwice(coll, id, u) ==
  toggleLike(toggleLike(coll, id, u).items, id, u).result.rec
LikedThenDisliked(coll, id, u) ==
  toggleDislike(toggleLike(coll, id, u).items, id, u).result.rec

\* C14: when a toggleLike is followed by a toggle of the same record by the
\* same actor that read the record as the toggleLike left it, then after a
\* second toggleLike the record's likes hold the actors they held before
\* the first, and after a toggleDislike by an actor who was in neither set
\* the actor is not in likes and is in dislikes.  The same holds of the two
\* toggles applied in turn to every stored record.
C14_TogglePairs ==
  /\ (last.pair.valid /\ last.name = "toggleLike")
       => SetOf(last.res.rec.likes) = SetOf(last.pair.likes)
  /\ (/\ last.pair.valid /\ last.name = "toggleDislike"
      /\ last.op.userId \notin SetOf(last.pair.likes) \cup SetOf(last.pair.dislikes))
       => /\ last.op.userId \notin SetOf(last.res.rec.likes)
          /\ last.op.userId \in SetOf(last.res.rec.dislikes)
  /\ \A s \in Stores : \A id \in Ids : \A u \in Actors :
       LET i == FindIndex(s.content, id)
       IN  i # 0 =>
             /\ SetOf(LikedTwice(s.content, id, u).likes) = SetOf(s.content[i].likes)
             /\ u \notin SetOf(s.content[i].likes) \cup SetOf(s.content[i].dislikes)
                  => /\ u \notin SetOf(LikedThenDisliked(s.content, id, u).likes)
                     /\ u \in SetOf(LikedThenDisliked(s.content, id, u).dislikes)

C14_Witness ==
  /\ last.pair.valid /\ last.name = "toggleDislike"
  /\ last.op.userId \notin SetOf(last.pair.likes) \cup SetOf(last.pair.dislikes)
  /\ last.store = "remote"

\* The records the operation that returned last gave its caller.
Returned ==
  IF last.res.kind = "record" THEN {last.res.rec} ELSE SetOf(last.res.list)

\* C15: for a private entity type, every record list, filter or get returns
\* has the caller as its owning user (records created by their owner are
\* considered; the owner is the record's user_id, the caller the session
\* user of the calling client).
C15_PrivateRecordsOnlyToOwner ==
  (entityName \in PRIVATE_ENTITIES /\ last.name \in Reading) =>
    \A r \in Returned :
      r.created_by = r.user_id => r.user_id = getCurrentUser(ClientOf(last.task))

\* The records of the collection read that a list with this owner filter is
\* to return: for a private entity type those whose user_id is the filter,
\* for a shared one all of them.
Matching(read, userId) ==
  IF entityName \in PRIVATE_ENTITIES
  THEN SelectSeq(read, LAMBDA r : r.user_id = userId)
  ELSE read

\* C16: a list called with an owner filter returns, for a private entity
\* type, exactly the records of the collection it read whose user_id equals
\* the filter (all of them when no limit is given, none other in any case),
\* and for a shared entity type what list returns without a filter.
C16_ListOwnerFilter ==
  [][(/\ opsStarted' # opsStarted /\ pc' = pc
      /\ last'.name = "list" /\ last'.op.userId # Null)
       => LET o == last'.op
              want == Matching(ReadByLast, o.userId)
          IN  /\ (o.limit = 0 /\ o.sort = "") => last'.res = ListResult(want)
              /\ SetOf(last'.res.list) \subseteq SetOf(want)
              /\ entityName \notin PRIVATE_ENTITIES =>
                   last'.res = list(entityName, ReadByLast, o.sort, o.limit, Null).result]_vars

C16_Witness ==
  /\ entityName \in PRIVATE_ENTITIES
  /\ last.name = "list" /\ last.op.userId = 1 /\ last.op.limit = 0
  /\ last.io[1] = <<"get", "ok">>
  /\ Len(remote.content) = 2
  /\ Len(last.res.list) = 1
  /\ last.res.list[1].user_id = 1

\* A collection without the records of this id.
Without(coll, id) == SelectSeq(coll, LAMBDA r : r.id # id)

\* C17: a delete returns true; when its write is accepted by the remote and
\* no other write changed the blob since the delete's read, the blob holds
\* afterwards no record with the id and still holds every other record it
\* held before; for a client with no remote configured, the localStorage
\* item holds afterwards exactly the records it held before except those
\* with the id.
C17_DeleteRemovesOnlyThatRecord ==
  [][\A t \in Tasks :
       (pc[t] = "write" /\ op[t].name = "delete" /\ pc'[t] = "idle")
         => /\ last'.res = TrueResult
            /\ (last'.store = "remote" /\ sawWrite[t] = {})
                 => /\ FindIndex(remote'.content, op[t].id) = 0
                    /\ \A i \in 1..Len(Stored(remote)) :
                         remote.content[i].id # op[t].id
                           => InArray(remote.content[i], remote'.content)
            /\ (/\ ~configured[ClientOf(t)]
                /\ Stored(localStorage[ClientOf(t)]) = base[t])
                 => localStorage'[ClientOf(t)].content =
                      Without(Stored(localStorage[ClientOf(t)]), op[t].id)]_vars

\* The operations that address one record by its id.
SingleRecord == {"get", "update", "toggleLike", "toggleDislike"}

\* C18: a get, update, toggleLike or toggleDislike whose id no record of the
\* collection it read has does not raise, returns absent, issues no write
\* and leaves the remote blob and every localStorage item as they were; an
\* update or toggle that issues a write found its id.
C18_NotFoundReturnsAbsent ==
  [][opsStarted' # opsStarted =>
       /\ \A t \in Tasks : pc'[t] = "raised" => pc[t] = "raised"
       /\ \A t \in Tasks :
            (/\ pc[t] = "idle" /\ pc'[t] = "write"
             /\ op'[t].name \in SingleRecord)
              => FindIndex(base'[t], op'[t].id) # 0
       /\ (/\ pc' = pc /\ last'.name \in SingleRecord
           /\ FindIndex(ReadByLast, last'.id) = 0)
            => /\ last'.res = Absent
               /\ last'.store = "none"
               /\ remote' = remote
               /\ localStorage' = localStorage]_vars

C18_Witness ==
  /\ last.name \in {"update", "toggleLike", "toggleDislike"}
  /\ last.res = Absent
  /\ last.io = << <<"get", "ok">> >>
  /\ remote.content # <<>>
  /\ FindIndex(remote.content, last.id) = 0

\* C22: list, filter and get never issue a write, and the step in which one
\* of them is called and returns leaves the remote blob (content and sha),
\* every localStorage item, every other client's shaCache and every
\* operation in flight as they were; only the caller's shaCache may change.
C22_ReadsChangeOnlyCallersCache ==
  [][opsStarted' # opsStarted =>
       /\ \A t \in Tasks :
            (pc[t] = "idle" /\ pc'[t] = "write") => op'[t].name \in Mutating
       /\ (pc' = pc /\ last'.name \in Reading)
            => /\ remote' = remote
               /\ BlobSha(remote'.content) = BlobSha(remote.content)
               /\ localStorage' = localStorage
               /\ \A c \in Clients :
                    c # ClientOf(last'.task) => shaCache'[c] = shaCache[c]
               /\ items' = items /\ reqSha' = reqSha /\ op' = op]_vars

C22_Witness ==
  /\ last.name \in Reading /\ last.task = 3
  /\ last.io = << <<"get", "ok">> >>
  /\ writerOf \in {1, 2}
  /\ remote.content # <<>>
  /\ shaCache[2] = BlobSha(remote.content)
  /\ localStorage[1].exists

\* The run so far is a create by client c that returned and then a get of
\* the created id by the same client: two calls, no other writer.
CreateThenGetOnly(c) ==
  /\ opsStarted = 2
  /\ last.name = "get" /\ last.task # 0 /\ ClientOf(last.task) = c
  /\ created[c].valid
  /\ last.id = created[c].rec.id

\* C21: read-your-writes for one client with no other writer: when a create
\* has returned, the next get of its id by the same client returns the
\* created record, whatever the outcomes of the create's read, of its write
\* and of the get's read were.
C21_ReadYourWrites ==
  \A c \in Clients :
    CreateThenGetOnly(c) => last.res = RecordResult(created[c].rec)

====
